---- MODULE Spec2Model ----
(***************************************************************************)
(* Cosmic-Voyager-3D: the GalaxyScene component (three revisions of it are *)
(* in the repository) as a state machine.                                  *)
(*                                                                         *)
(*   "overlay"     src/unnamed/part_002 lines   1-300                      *)
(*   "continuous"  src/unnamed/part_001                                    *)
(*   "periodic"    src/unnamed/part_002 lines 303-662                      *)
(*                                                                         *)
(* Spec     the lifecycle: mount, prop changes, the effects React runs on  *)
(*          each commit, the requestAnimationFrame loop, unmount.          *)
(* SpecGen  the generation effect's buffer construction, run on bounded    *)
(*          configurations, one loop iteration per step.                   *)
(* SpecFrames  the frame loop of the continuous and the periodic revision  *)
(*          on the buffers of one generation: two runs on the same clock,  *)
(*          the second with a single frame.                                *)
(* SpecLong  the continuous revision's supernova over many frames.         *)
(* SpecAudio  the narration player of App (two revisions: src/App.tsx and  *)
(*          src/unnamed/part_003): clicks, speech requests, animation      *)
(*          frames and the audio clock.                                    *)
(* SpecVoice  the live voice session of GeminiService (src/unnamed/        *)
(*          part_000): the messages of the server, the scheduling of the   *)
(*          audio chunks and the interruptions.                            *)
(* SpecBlob  createBlob of GeminiService: the conversion of the samples of *)
(*          the microphone to 16 bit PCM, one sample per step.             *)
(***************************************************************************)
EXTENDS Integers, Sequences, FiniteSets, TLC

VARIABLES
    variant,      \* which revision of GalaxyScene is running
    params,       \* the params prop of the current render
    paramsRef,    \* paramsRef.current
    sceneRef,     \* sceneRef.current: [set, stars, additionalParticles]
    objects,      \* the THREE objects still referenced, by id
    scene,        \* ids of the children of the THREE.Scene
    created,      \* render-side resources constructed so far
    disposed,     \* render-side resources on which dispose() was called
    clock,        \* the THREE.Clock of the mount effect
    now,          \* the host's monotonic time (performance.now), in ticks
    queue,        \* passive effects of the current commit still to run
    flushing,     \* TRUE while React is inside a flush of passive effects
    raf,          \* TRUE when animate is registered with requestAnimationFrame
    mounted,      \* "no" | "yes" | "gone"
    container,    \* children of the container div: {} or {"canvas"}
    gen,          \* number of runs of the generation effect so far
    changes,      \* number of prop changes so far
    frame,        \* what the last run of animate read and did
    gcfg,         \* SpecGen: the configuration handed to the generator
    gi,           \* SpecGen: loop index of the generation loop
    gpos,         \* SpecGen: position values written so far
    gcol,         \* SpecGen: color values written so far
    gmix,         \* SpecGen: per particle, r, the lerp factor, the rule and the angle
    gout,         \* SpecGen: Null, or the finished generation
    kcfg,         \* SpecFrames: the configuration the buffers were generated for
    kaux,         \* SpecFrames: sceneRef.current.additionalParticles
    kmeta,        \* SpecFrames: geometry.userData of the stars
    kalpha,       \* SpecFrames: the lerp factor of each particle followed
    krun,         \* SpecFrames: per run, the buffers and object properties
    klast,        \* SpecFrames: per run, the elapsed time at its last frame
    kframes,      \* SpecFrames: per run, the number of frames so far
    know,         \* SpecFrames: the advances of the clock so far
    app,          \* SpecAudio: the App component and its audio graph
    voice,        \* SpecVoice: the GeminiService instance and its output context
    blob          \* SpecBlob: the Float32Array handed to createBlob and its Int16Array

lvars == <<variant, params, paramsRef, sceneRef, objects, scene, created,
           disposed, clock, now, queue, flushing, raf, mounted, container,
           gen, changes, frame>>
gvars == <<gcfg, gi, gpos, gcol, gmix, gout>>
kvars == <<kcfg, kaux, kmeta, kalpha, krun, klast, kframes, know>>
avars == <<app>>
svars == <<voice, blob>>
vars == <<lvars, gvars, kvars, avars, svars>>

Null == "null"

(* No object: sceneRef.current.stars === null *)
NoObject == <<0, 0>>

(* sceneRef.current === null *)
NoSceneRef == [set |-> FALSE, stars |-> NoObject, additionalParticles |-> << >>]

----------------------------------------------------------------------------
(* Bounds of the model *)

MaxChanges == 2
MaxTime == 2
MaxStars == 2
MaxParticles == 2
MaxElapsed == 5
MaxFrames == 2
MaxSteps == 112
MaxClicks == 2
MaxAudioTime == 2
MaxDuration == 2
MaxPresses == 3
MaxPlayTime == 3
MaxMessages == 3
MaxVoiceTime == 3
MaxChunk == 2
MaxSamples == 2
SampleLevels == 8

----------------------------------------------------------------------------
(* types.ts *)

GalaxyType == {"SPIRAL", "BARRED_SPIRAL", "ELLIPTICAL", "IRREGULAR", "LENTICULAR"}
CosmicEvent == {"COLLISION", "SUPERNOVA", "QUASAR"}
Types == GalaxyType \cup CosmicEvent

Variants == {"overlay", "continuous", "periodic"}

----------------------------------------------------------------------------
(* Particle counts fixed in the generation effect *)

SupernovaCountContinuous == 100000
QuasarCountContinuous == 150000
JetCountContinuous == 8000
SupernovaCountPeriodic == 150000
QuasarCountPeriodic == 200000
CollisionCountPeriodic == 150000
JetCountPeriodic == 10000
DiskCountOverlay == 15000
JetCountOverlay == 4000
ExplosionCountOverlay == 25000

----------------------------------------------------------------------------
(* new THREE.Color(style): a style three.js cannot parse is reported with  *)
(* console.warn and leaves the constructor's default, white.  Channels are  *)
(* in hundredths.                                                           *)

WellFormed(style) == style \in {"#ff6030", "#1b3984", "#ffffff"}

Color(style) ==
    IF style = "#ff6030" THEN <<100, 38, 19>>
    ELSE IF style = "#1b3984" THEN <<11, 22, 52>>
    ELSE IF style = "#ffffff" THEN <<100, 100, 100>>
    ELSE <<100, 100, 100>>

----------------------------------------------------------------------------
(* new Float32Array(n): the length is ToIndex(n), the integer part of n.   *)
(* The argument is given as the fraction num / den.                         *)

Float32ArrayLength(num, den) == num \div den

----------------------------------------------------------------------------
(* The generation effect: which branch builds the main particle system     *)

GenerationBranch(v, type) ==
    IF v = "overlay"
    THEN IF type = "COLLISION" THEN "collision_systems" ELSE "regular"
    ELSE IF type = "SUPERNOVA" THEN "supernova"
    ELSE IF type = "QUASAR" THEN "quasar"
    ELSE IF type = "COLLISION" THEN "collision"
    ELSE "standard"

BranchCountFromConfig(v, p) == <<p.starsCount, 1>>

(* const count = ... of the branch, as the fraction <<num, den>> *)
BranchCount(v, p) ==
    LET b == GenerationBranch(v, p.type) IN
    IF b = "supernova"
    THEN <<IF v = "continuous" THEN SupernovaCountContinuous ELSE SupernovaCountPeriodic, 1>>
    ELSE IF b = "quasar"
    THEN <<IF v = "continuous" THEN QuasarCountContinuous ELSE QuasarCountPeriodic, 1>>
    ELSE IF b = "collision"
    THEN <<IF v = "continuous" THEN p.starsCount ELSE CollisionCountPeriodic, 1>>
    ELSE IF b = "collision_systems"
    THEN <<p.starsCount, 2>>
    ELSE <<p.starsCount, 1>>

(* geometry.userData of the stars the branch builds *)
BranchUserData(v, type) ==
    LET b == GenerationBranch(v, type) IN
    IF b = "supernova" THEN {"velocities"}
    ELSE IF b = "collision" /\ v = "periodic" THEN {"initialPositions", "isGalaxyA"}
    ELSE {}

Object(id, g, p, name, kind, geom, mat, posLen, colLen, userData, spinDir) ==
    [id |-> id, gen |-> g, type |-> p.type, name |-> name, kind |-> kind,
     geometry |-> geom, material |-> mat, posLen |-> posLen, colLen |-> colLen,
     userData |-> userData, spinDir |-> spinDir, rotY |-> 0, lastLaw |-> "none"]

Geom(g, k) == [kind |-> "geometry", gen |-> g, slot |-> k]
Mat(g, k) == [kind |-> "material", gen |-> g, slot |-> k]
Tex(g) == [kind |-> "texture", gen |-> g, slot |-> 0]
Renderer == [kind |-> "renderer", gen |-> 0, slot |-> 0]

(* The THREE.Points assigned to sceneRef.current.stars: none when the      *)
(* branch assigns none (the overlay revision's collision branch).          *)
NewStars(v, p, g) ==
    IF GenerationBranch(v, p.type) = "collision_systems" THEN << >>
    ELSE LET c == BranchCount(v, p)
             n == Float32ArrayLength(c[1] * 3, c[2])
         IN  << Object(<<g, 0>>, g, p, "", "Points", Geom(g, 0), Mat(g, 0), n, n,
                       BranchUserData(v, p.type), 0) >>

(* An auxiliary with its own geometry and material *)
Aux(g, p, k, name, kind, posLen, colLen, userData, spinDir) ==
    Object(<<g, k>>, g, p, name, kind, Geom(g, k), Mat(g, k), posLen, colLen,
           userData, spinDir)

(* obj.clone(): a new object sharing the geometry and the material, with   *)
(* the name copied                                                         *)
Clone(o, k) == [o EXCEPT !.id = <<o.gen, k>>]

NewAuxiliariesByCount(v, p, g) ==
    IF p.type = "SUPERNOVA"
    THEN [k \in 1..p.starsCount |-> Aux(g, p, k, "supernova_core", "Points", 3, 0, {}, 0)]
    ELSE << >>

(* The objects pushed to sceneRef.current.additionalParticles, in order *)
NewAuxiliaries(v, p, g) ==
    IF v = "overlay"
    THEN IF p.type = "COLLISION"
         THEN LET n == Float32ArrayLength(p.starsCount * 3, 2) IN
              << Aux(g, p, 1, "collision_system", "Points", n, n, {"spinDir"}, 1),
                 Aux(g, p, 2, "collision_system", "Points", n, n, {"spinDir"}, -1) >>
         ELSE IF p.type = "QUASAR"
         THEN LET jet == Aux(g, p, 2, "quasar_jet", "Points", JetCountOverlay * 3, 0, {}, 0) IN
              << Aux(g, p, 1, "accretion_disk", "Points", DiskCountOverlay * 3,
                     DiskCountOverlay * 3, {}, 0),
                 jet, Clone(jet, 3),
                 Aux(g, p, 4, "", "Mesh", 0, 0, {}, 0) >>
         ELSE IF p.type = "SUPERNOVA"
         THEN << Aux(g, p, 1, "supernova_explosion", "Points", ExplosionCountOverlay * 3,
                     ExplosionCountOverlay * 3, {"velocities"}, 0) >>
         ELSE << >>
    ELSE IF p.type = "SUPERNOVA"
    THEN << Aux(g, p, 1, "supernova_core", "Points", 3, 0, {}, 0) >>
    ELSE IF p.type = "QUASAR"
    THEN LET jc == IF v = "continuous" THEN JetCountContinuous ELSE JetCountPeriodic
             jet == Aux(g, p, 3, "quasar_jet", "Points", jc * 3, 0, {}, 0)
         IN  << Aux(g, p, 1, "", "Mesh", 0, 0, {}, 0),
                Aux(g, p, 2, "quasar_core_glow", "Points", 3, 0, {}, 0),
                jet, Clone(jet, 4) >>
    ELSE << >>

Range(s) == {s[i] : i \in 1..Len(s)}

----------------------------------------------------------------------------
(* Float values: a number in hundredths, NaN, or an infinity *)

N(v) == [k |-> "num", v |-> v]
NaN == [k |-> "nan", v |-> 0]
Inf(sign) == [k |-> "inf", v |-> sign]

Sign(v) == IF v < 0 THEN -1 ELSE 1

FAdd(a, b) ==
    IF a.k = "nan" \/ b.k = "nan" THEN NaN
    ELSE IF a.k = "inf" /\ b.k = "inf" THEN (IF a.v = b.v THEN a ELSE NaN)
    ELSE IF a.k = "inf" THEN a
    ELSE IF b.k = "inf" THEN b
    ELSE N(a.v + b.v)

FSub(a, b) == FAdd(a, [b EXCEPT !.v = -b.v])

FMul(a, b) ==
    IF a.k = "nan" \/ b.k = "nan" THEN NaN
    ELSE IF a.k = "inf" \/ b.k = "inf"
    THEN (IF a.v = 0 \/ b.v = 0 THEN NaN ELSE Inf(Sign(a.v) * Sign(b.v)))
    ELSE N((a.v * b.v) \div 100)

(* a / b: 0/0 is NaN, x/0 an infinity *)
FDiv(a, b) ==
    IF a.k = "nan" \/ b.k = "nan" THEN NaN
    ELSE IF a.k = "inf" THEN (IF b.k = "inf" THEN NaN ELSE Inf(a.v * Sign(b.v)))
    ELSE IF b.k = "inf" THEN N(0)
    ELSE IF b.v = 0 THEN (IF a.v = 0 THEN NaN ELSE Inf(Sign(a.v)))
    ELSE N((a.v * 100) \div b.v)

ISqrt(u) == CHOOSE k \in 0..u : k * k <= u /\ u < (k + 1) * (k + 1)

(* Math.pow(u, 1.5) and Math.pow(u, 2) for u in [0, 1), in hundredths *)
Pow15(u) == (ISqrt(u) * ISqrt(u) * ISqrt(u)) \div 10
Pow2(u) == (u * u) \div 100

(* Math.cos and Math.sin of an angle in eighths of a turn *)
Cos8(a) == <<100, 71, 0, -71, -100, -71, 0, 71>>[(a % 8) + 1]
Sin8(a) == Cos8(a + 6)

LerpFromOther(c, other, alpha) ==
    [j \in 1..3 |-> FAdd(N(other[j]), FMul(FSub(N(c[j]), N(other[j])), alpha))]

(* colorInside.clone().lerp(colorOutside, alpha): c += (other - c) * alpha *)
Lerp(c, other, alpha) ==
    [j \in 1..3 |-> FAdd(N(c[j]), FMul(FSub(N(other[j]), N(c[j])), alpha))]

----------------------------------------------------------------------------
(* The outcomes of the Math.random() calls of one loop iteration:          *)
(*   u      the draw for the radius, in hundredths                         *)
(*   jx..jz Math.pow(Math.random(), randomnessPower) times the random sign *)
(*   theta  Math.random() * 2 pi, in eighths of a turn                     *)
(*   phi    Math.acos(2 * Math.random() - 1), in eighths of a turn         *)
(*   ub     the draw for the bulge radius, in hundredths                   *)
Draws ==
    { [u |-> 0,  jx |-> 0,   jy |-> 0,   jz |-> 0,  theta |-> 0, phi |-> 2, ub |-> 0],
      [u |-> 25, jx |-> 50,  jy |-> -50, jz |-> 12, theta |-> 3, phi |-> 4, ub |-> 49],
      [u |-> 81, jx |-> -99, jy |-> 99,  jz |-> 0,  theta |-> 6, phi |-> 1, ub |-> 81] }

(* totalAngle = spinAngle + branchAngle of particle i at radius r, in      *)
(* eighths of a turn                                                       *)
TotalAngle(p, i, r) ==
    LET spinAngle == (r.v * p.spin) \div 100
        branchAngle == ((i % p.branches) * 8) \div p.branches
    IN  spinAngle + branchAngle

(* One iteration of the loop of the standard branch (the regular branch    *)
(* of the overlay revision writes the spiral rule for every type): the     *)
(* three position values and the three color values of particle i.         *)
StandardParticle(v, p, i, d) ==
    LET R == N(p.radius)
        r == FMul(N(Pow15(d.u)), R)
        total == TotalAngle(p, i, r)
        jitter(j) == FMul(FMul(N(j), N(p.randomness)), r)
        rx == jitter(d.jx)
        ry == jitter(d.jy)
        rz == jitter(d.jz)
        disk(flat) == << FAdd(FMul(N(Cos8(total)), r), rx),
                        FMul(ry, N(flat)),
                        FAdd(FMul(N(Sin8(total)), r), rz) >>
        sphere(rad, fy, fz) ==
            << FMul(FMul(N(Sin8(d.phi)), N(Cos8(d.theta))), rad),
               FMul(FMul(FMul(N(Sin8(d.phi)), N(Sin8(d.theta))), rad), N(fy)),
               FMul(FMul(N(Cos8(d.phi)), rad), N(fz)) >>
        rb == FMul(N(Pow2(d.ub)), FMul(R, N(IF v = "continuous" THEN 35 ELSE 40)))
        isBulge == i * 10 < p.starsCount * 4
        rule == IF v = "overlay" THEN "disk"
                ELSE IF p.type = "ELLIPTICAL" THEN "ellipsoid"
                ELSE IF p.type = "LENTICULAR"
                THEN (IF isBulge THEN "bulge" ELSE "disk")
                ELSE "disk"
        pos == IF v = "overlay" THEN disk(30)
               ELSE IF p.type = "ELLIPTICAL"
               THEN (IF v = "continuous" THEN sphere(r, 70, 85) ELSE sphere(r, 75, 90))
               ELSE IF p.type = "LENTICULAR"
               THEN (IF isBulge
                     THEN sphere(rb, 80, 100)
                     ELSE disk(IF v = "continuous" THEN 12 ELSE 10))
               ELSE disk(30)
        alpha == FDiv(r, R)
        mix == Lerp(Color(p.insideColor), Color(p.outsideColor), alpha)
    IN  [pos |-> pos, col |-> mix, r |-> r, alpha |-> alpha, rule |-> rule,
         angle |-> IF rule = "disk" THEN total ELSE d.theta]

----------------------------------------------------------------------------
(* The per-frame motion laws work on position buffers.  Here lengths,      *)
(* positions and velocities are integers in thousandths, angles are in     *)
(* thousandths of a radian, and the elapsed time is in milliseconds.       *)

Abs(a) == IF a < 0 THEN -a ELSE a
Max(a, b) == IF a > b THEN a ELSE b

(* a * b and a / b on thousandths, rounded toward zero *)
MulM(a, b) == LET p == a * b IN IF p < 0 THEN -((-p) \div 1000) ELSE p \div 1000
DivM(a, b) == LET p == a * 1000 IN
              IF (p < 0) # (b < 0) THEN -(Abs(p) \div Abs(b)) ELSE Abs(p) \div Abs(b)

RECURSIVE SqrtSearch(_, _, _)
SqrtSearch(u, lo, hi) ==
    IF lo >= hi THEN lo
    ELSE LET mid == (lo + hi + 1) \div 2 IN
         IF mid * mid <= u THEN SqrtSearch(u, mid, hi) ELSE SqrtSearch(u, lo, mid - 1)

(* Math.sqrt(x*x + y*y + z*z) of thousandths, in thousandths *)
Hypot(x, y, z) == SqrtSearch(x * x + y * y + z * z, 0, 46340)

(* Math.cos on [0, pi/2], by its series to the sixth order *)
CosQuarter(x) ==
    LET x2 == (x * x) \div 1000
        x4 == (x2 * x2) \div 1000
        x6 == (x4 * x2) \div 1000
    IN  1000 - x2 \div 2 + x4 \div 24 - x6 \div 720

(* Math.cos and Math.sin *)
CosM(a) ==
    LET r == a % 6283
        h == IF r > 3142 THEN 6283 - r ELSE r
    IN  IF h > 1571 THEN -CosQuarter(3142 - h) ELSE CosQuarter(h)
SinM(a) == CosM(a - 1571)

(* Math.pow(h, 2.5) and Math.pow(h, 1.2) for h in [0, 1] *)
Pow25(h) == MulM(MulM(h, h), SqrtSearch(h * 1000, 0, 1000))
Root5(h) ==
    LET below(k) == ((k * k * k * k) \div 10) * k <= h * 1000000
    IN  10 * (CHOOSE k \in 0..100 : below(k) /\ (k = 100 \/ ~below(k + 1)))
Pow12(h) == MulM(h, Root5(h))

(* color.offsetHSL(0.5, 0, 0): the hue turned by half a turn, saturation   *)
(* and lightness kept, which maps each channel c to max + min - c          *)
OffsetHalfHue(c) ==
    LET hi == Max(c[1].v, Max(c[2].v, c[3].v))
        lo == -Max(-c[1].v, Max(-c[2].v, -c[3].v))
    IN  [j \in 1..3 |-> N(hi + lo - c[j].v)]

----------------------------------------------------------------------------
(* The event branches of the generation effect, particle by particle.  The *)
(* loops run over counts of 10^5 particles and treat each particle alone,  *)
(* so the buffers are followed at MaxParticles indices spread over the     *)
(* count.                                                                  *)

SampleIndex(k, count) == ((k - 1) * count) \div MaxParticles

(* The outcomes of the Math.random() calls of one iteration, thousandths:  *)
(*   w      Math.pow(Math.random(), e), the radius or speed draw           *)
(*   a      Math.random() * Math.PI * 2                                    *)
(*   phi    Math.acos(Math.random() * 2 - 1)                               *)
(*   x y z  Math.random() - 0.5, one per axis                              *)
(*   h      Math.random(), the height of a jet particle                    *)
EventDraws ==
    { [w |-> 0,   a |-> 0,    phi |-> 1571, x |-> -500, y |-> -500, z |-> -500, h |-> 0],
      [w |-> 990, a |-> 2356, phi |-> 785,  x |-> 499,  y |-> 400,  z |-> -300, h |-> 999] }

Hundredths(c) == [j \in 1..3 |-> N(c[j])]

(* SUPERNOVA: part_001 173-187, part_002 521-530 *)
SupernovaParticle(v, d) ==
    LET speed == IF v = "continuous" THEN 800 + MulM(d.w, 5000)
                 ELSE 200 + MulM(d.w, 4000)
    IN  [pos |-> IF v = "continuous"
                 THEN <<MulM(d.x, 500), MulM(d.y, 500), MulM(d.z, 500)>>
                 ELSE <<0, 0, 0>>,
         col |-> Hundredths(<<100, 100, 100>>),
         vel |-> << MulM(MulM(SinM(d.phi), CosM(d.a)), speed),
                    MulM(MulM(SinM(d.phi), SinM(d.a)), speed),
                    MulM(CosM(d.phi), speed) >>,
         alpha |-> N(0)]

(* QUASAR, the accretion disk: part_001 213-223, part_002 548-557.  The    *)
(* lerp factor r / 6 (r / 8) is in hundredths.                             *)
QuasarParticle(v, p, d) ==
    LET r == IF v = "continuous" THEN 800 + MulM(d.w, 6000) ELSE 500 + MulM(d.w, 8000)
        alpha == N(IF v = "continuous" THEN r \div 60 ELSE r \div 80)
    IN  [pos |-> << MulM(CosM(d.a), r),
                    DivM(MulM(d.y, IF v = "continuous" THEN 100 ELSE 150), r),
                    MulM(SinM(d.a), r) >>,
         col |-> Lerp(Color(p.insideColor), Color(p.outsideColor), alpha),
         alpha |-> alpha]

(* COLLISION of the periodic revision: part_002 591-607.  pos stays the    *)
(* zero-filled Float32Array.                                               *)
CollisionParticle(p, i, count, d) ==
    LET isGalaxyA == i * 2 < count
        R == p.radius * 10
        r == MulM(d.w, R)
        alpha == N((r * 100) \div R)
        mix == Lerp(Color(p.insideColor), Color(p.outsideColor), alpha)
    IN  [pos |-> <<0, 0, 0>>,
         col |-> IF isGalaxyA THEN mix ELSE OffsetHalfHue(mix),
         initialPos |-> <<MulM(CosM(d.a), r), MulM(d.y, 500), MulM(SinM(d.a), r)>>,
         isA |-> isGalaxyA,
         alpha |-> alpha]

(* Concatenation of the triples f(1), ..., f(n) *)
RECURSIVE Flatten(_, _)
Flatten(f, n) == IF n = 0 THEN << >> ELSE Flatten(f, n - 1) \o f[n]

NoMetadata == [velocities |-> << >>, initialPositions |-> << >>, isGalaxyA |-> << >>]

(* The buffers of the stars and geometry.userData, for the draws ds of the *)
(* sampled particles.  The branches that animate only rotates are not      *)
(* followed value by value.                                                *)
EventStars(v, p, ds) ==
    LET b == GenerationBranch(v, p.type)
        n == Len(ds)
    IN  IF b = "supernova"
        THEN LET q == [k \in 1..n |-> SupernovaParticle(v, ds[k])] IN
             [pos |-> Flatten([k \in 1..n |-> q[k].pos], n),
              col |-> Flatten([k \in 1..n |-> q[k].col], n),
              alpha |-> << >>,
              meta |-> [NoMetadata EXCEPT
                          !.velocities = Flatten([k \in 1..n |-> q[k].vel], n)]]
        ELSE IF b = "quasar"
        THEN LET q == [k \in 1..n |-> QuasarParticle(v, p, ds[k])] IN
             [pos |-> Flatten([k \in 1..n |-> q[k].pos], n),
              col |-> Flatten([k \in 1..n |-> q[k].col], n),
              alpha |-> [k \in 1..n |-> q[k].alpha],
              meta |-> NoMetadata]
        ELSE IF b = "collision" /\ v = "periodic"
        THEN LET c == BranchCount(v, p)[1]
                 q == [k \in 1..n |-> CollisionParticle(p, SampleIndex(k, c), c, ds[k])]
             IN
             [pos |-> Flatten([k \in 1..n |-> q[k].pos], n),
              col |-> Flatten([k \in 1..n |-> q[k].col], n),
              alpha |-> [k \in 1..n |-> q[k].alpha],
              meta |-> [NoMetadata EXCEPT
                          !.initialPositions = Flatten([k \in 1..n |-> q[k].initialPos], n),
                          !.isGalaxyA = [k \in 1..n |-> q[k].isA]]]
        ELSE [pos |-> << >>, col |-> << >>, alpha |-> << >>, meta |-> NoMetadata]

----------------------------------------------------------------------------
(* THREE.Clock, as animate uses it *)

NewClock == [running |-> FALSE, startTime |-> 0, oldTime |-> 0, elapsedTime |-> 0]

(* clock.getElapsedTime(): getDelta() starts a clock that is not running,  *)
(* and otherwise adds the time since the last call to elapsedTime.         *)
GetElapsedTime(c, t) ==
    IF ~c.running
    THEN [running |-> TRUE, startTime |-> t, oldTime |-> t, elapsedTime |-> 0]
    ELSE [c EXCEPT !.oldTime = t, !.elapsedTime = c.elapsedTime + (t - c.oldTime)]

(* clock.start() *)
ClockStarted(c, t) ==
    [running |-> TRUE, startTime |-> t, oldTime |-> t, elapsedTime |-> 0]

(* The generation effect has no statement on the clock *)
ClockAfterGeneration(c, t) == c

----------------------------------------------------------------------------
(* animate: the main particle system.  Rotations are in hundredths of a    *)
(* radian, the elapsed time in ticks of one second.                        *)

RotationSpeed(type) == IF type \in {"ELLIPTICAL", "LENTICULAR"} THEN 2 ELSE 5

(* The motion law animate selects for the stars *)
MotionLaw(v, type) ==
    IF v = "overlay" THEN "rotate"
    ELSE IF type = "SUPERNOVA" THEN "supernova"
    ELSE IF type = "QUASAR" THEN "quasar"
    ELSE IF v = "periodic" /\ type = "COLLISION" THEN "collision"
    ELSE "rotate"

(* The geometry.userData entry the law indexes in its per-particle loop *)
LawReads(law) ==
    IF law = "supernova" THEN {"velocities"}
    ELSE IF law = "collision" THEN {"isGalaxyA", "initialPositions"}
    ELSE {}

(* Indexing an undefined userData entry throws a TypeError; the loop body  *)
(* runs only when the position buffer is not empty.                        *)
LawThrows(law, o) == o.posLen >= 3 /\ ~(LawReads(law) \subseteq o.userData)

AnimateStars(v, type, o, elapsed) ==
    LET law == MotionLaw(v, type) IN
    IF law = "rotate"
    THEN [o EXCEPT !.rotY = elapsed * (IF v = "overlay" THEN 5 ELSE RotationSpeed(type)),
                   !.lastLaw = law]
    ELSE [o EXCEPT !.lastLaw = law]

(* animate: one auxiliary object, dispatched on its name *)
AnimateAuxiliary(v, o, elapsed) ==
    IF o.name = "quasar_jet" THEN [o EXCEPT !.lastLaw = "jet"]
    ELSE IF v = "overlay"
    THEN IF o.name = "supernova_explosion" THEN [o EXCEPT !.lastLaw = "explosion"]
         ELSE IF o.name = "accretion_disk"
         THEN [o EXCEPT !.rotY = elapsed * 800, !.lastLaw = "spin"]
         ELSE IF o.name = "collision_system"
         THEN [o EXCEPT !.rotY = elapsed * o.spinDir * 10, !.lastLaw = "spin"]
         ELSE o
    ELSE IF o.name = "supernova_core"
    THEN [o EXCEPT !.lastLaw = IF v = "periodic" THEN "core" ELSE "pulse"]
    ELSE IF o.name = "quasar_core_glow" THEN [o EXCEPT !.lastLaw = "pulse"]
    ELSE o

(* The names animate compares obj.name with *)
DispatchTags(v) ==
    IF v = "overlay"
    THEN {"quasar_jet", "supernova_explosion", "accretion_disk", "collision_system"}
    ELSE {"quasar_jet", "supernova_core", "quasar_core_glow"}

NoFrame == [elapsedTime |-> 0, type |-> Null, stars |-> NoObject,
            starsType |-> Null, law |-> "none",
            threw |-> FALSE, aux |-> << >>, mounted |-> "no"]

(* One run of animate at host time t: the clock, the objects, the record   *)
(* of what it read, and whether it registered itself for the next frame.   *)
Animation(v, ref, sref, objs, c, t, m) ==
    LET c2 == GetElapsedTime(c, t)
        elapsed == c2.elapsedTime
        type == IF v = "overlay" THEN Null ELSE ref.type
        hasStars == sref.set /\ sref.stars # NoObject
        law == IF hasStars THEN MotionLaw(v, type) ELSE "none"
        threw == hasStars /\ LawThrows(law, objs[sref.stars])
        aux == IF sref.set THEN sref.additionalParticles ELSE << >>
        stepped == [id \in DOMAIN objs |->
                      IF hasStars /\ id = sref.stars
                      THEN AnimateStars(v, type, objs[id], elapsed)
                      ELSE IF ~threw /\ id \in Range(aux)
                      THEN AnimateAuxiliary(v, objs[id], elapsed)
                      ELSE objs[id]]
    IN  [clock |-> c2,
         objects |-> IF threw THEN objs ELSE stepped,
         frame |-> [elapsedTime |-> elapsed, type |-> type,
                    stars |-> IF hasStars THEN sref.stars ELSE NoObject,
                    starsType |-> IF hasStars THEN objs[sref.stars].type ELSE Null,
                    law |-> law, threw |-> threw, aux |-> aux, mounted |-> m],
         raf |-> ~threw]

----------------------------------------------------------------------------
(* animate of the continuous and the periodic revision, on the buffers.    *)
(* t is the value of clock.getElapsedTime().                               *)

Triple(buf, k) == <<buf[3 * k - 2], buf[3 * k - 1], buf[3 * k]>>

SupernovaNoRecycle(p, vel) ==
    LET q == [j \in 1..3 |-> p[j] + MulM(vel[j], 40)]
        heat == Max(0, 1000 - DivM(Hypot(q[1], q[2], q[3]), 18000))
    IN  [pos |-> q,
         col |-> <<N(100), N(Pow12(heat) \div 10), N(Pow25(heat) \div 10)>>]

(* SUPERNOVA, continuous revision: part_001 73-88 *)
SupernovaContinuousStep(p, vel) ==
    LET q == [j \in 1..3 |-> p[j] + MulM(vel[j], 40)]
        dist == Hypot(q[1], q[2], q[3])
        heat == Max(0, 1000 - DivM(dist, 18000))
    IN  [pos |-> IF q[1] * q[1] + q[2] * q[2] + q[3] * q[3] > 25000 * 25000
                 THEN <<0, 0, 0>> ELSE q,
         col |-> <<N(100), N(Pow12(heat) \div 10), N(Pow25(heat) \div 10)>>]

ProgressUnwrapped(t) == DivM(t, 10000)

(* progress = (elapsedTime % duration) / duration, duration = 10 *)
Progress(t) == DivM(t % 10000, 10000)

(* SUPERNOVA, periodic revision: part_002 380-398.  The loop at 381 zeroes *)
(* the buffer when progress < 0.01; the loop at 384 then assigns every     *)
(* value.                                                                  *)
SupernovaPeriodicStep(p, vel, t) ==
    LET progress == Progress(t)
        speedFactor == MulM(progress, 15000)
        heat == Max(0, 1000 - MulM(progress, 1500))
    IN  [pos |-> [j \in 1..3 |-> MulM(vel[j], speedFactor)],
         col |-> <<N(100), N(heat \div 10), N(MulM(heat, heat) \div 10)>>]

(* QUASAR, the disk: part_001 94-105, part_002 404-413 *)
QuasarStep(v, p, t) ==
    LET x == p[1]
        z == p[3]
        r == Hypot(x, 0, z)
        angle == IF v = "continuous" THEN DivM(100, r + 500) ELSE DivM(160, r + 300)
    IN  << MulM(x, CosM(angle)) - MulM(z, SinM(angle)),
           IF v = "continuous"
           THEN p[2] + MulM(SinM(2 * t + r), 2)
           ELSE MulM(SinM(4 * t + 2 * r), 10),
           MulM(x, SinM(angle)) + MulM(z, CosM(angle)) >>

(* COLLISION, periodic revision: part_002 421-446 *)
CollisionDistance(t) == MulM(8000, CosM(MulM(t, 400)))
CollisionPull(dist) == MulM(Max(0, 1000 - DivM(Abs(dist), 5000)), 2000)
CollisionDrift(isA, pull) == IF isA THEN -pull ELSE pull
CollisionRotX(init, t) ==
    MulM(init[1], CosM(MulM(t, 500))) - MulM(init[3], SinM(MulM(t, 500)))
CollisionRotZ(init, t) ==
    MulM(init[1], SinM(MulM(t, 500))) + MulM(init[3], CosM(MulM(t, 500)))

CollisionStep(init, isA, t) ==
    LET dist == CollisionDistance(t)
        targetCenter == IF isA THEN <<dist, 0, 0>> ELSE <<-dist, 0, 0>>
        driftX == CollisionDrift(isA, CollisionPull(dist))
    IN  << CollisionRotX(init, t) + targetCenter[1] + driftX,
           init[2] + MulM(SinM(t + init[1]), 200),
           CollisionRotZ(init, t) + targetCenter[3] >>

MetadataRewritten(meta) ==
    [velocities |-> [j \in DOMAIN meta.velocities |-> MulM(meta.velocities[j], 990)],
     initialPositions |-> [j \in DOMAIN meta.initialPositions |-> 0],
     isGalaxyA |-> [j \in DOMAIN meta.isGalaxyA |-> ~meta.isGalaxyA[j]]]

(* animate reads userData.velocities, initialPositions and isGalaxyA and   *)
(* assigns to none of them                                                 *)
MetadataAfterFrame(meta) == meta

(* The stars branch of animate: part_001 67-110, part_002 369-453.  s is   *)
(* the state of the stars before the frame.                                *)
StarsFrame(v, type, s, meta, t) ==
    LET law == MotionLaw(v, type)
        n == Len(s.pos) \div 3
    IN  IF law = "supernova"
        THEN LET q == [k \in 1..n |->
                         IF v = "continuous"
                         THEN SupernovaContinuousStep(Triple(s.pos, k), Triple(meta.velocities, k))
                         ELSE SupernovaPeriodicStep(Triple(s.pos, k), Triple(meta.velocities, k), t)]
             IN  [s EXCEPT !.pos = Flatten([k \in 1..n |-> q[k].pos], n),
                           !.col = Flatten([k \in 1..n |-> q[k].col], n),
                           !.opacity = IF v = "continuous" THEN @
                                       ELSE Max(0, 1000 - MulM(Progress(t), 1100))]
        ELSE IF law = "quasar"
        THEN [s EXCEPT !.pos = Flatten([k \in 1..n |-> QuasarStep(v, Triple(s.pos, k), t)], n)]
        ELSE IF law = "collision"
        THEN [s EXCEPT !.pos = Flatten([k \in 1..n |->
                                  CollisionStep(Triple(meta.initialPositions, k),
                                                meta.isGalaxyA[k], t)], n)]
        ELSE [s EXCEPT !.rotY = MulM(t, RotationSpeed(type) * 10)]

(* quasar_jet: part_001 114-123, part_002 457-466.  d gives the outcomes   *)
(* of the two Math.random() calls of a recycled particle; the particles    *)
(* one object recycles in one frame are given the same outcomes.           *)
JetParticleStep(v, p, d) ==
    LET y == p[2] + (IF v = "continuous" THEN 250 ELSE 400)
    IN  IF y > (IF v = "continuous" THEN 15000 ELSE 20000)
        THEN <<MulM(d.x, 50), 500, MulM(d.z, 50)>>
        ELSE <<p[1], y, p[3]>>

JetStep(v, buf, ds) ==
    Flatten([k \in 1..(Len(buf) \div 3) |-> JetParticleStep(v, Triple(buf, k), ds)],
            Len(buf) \div 3)

(* The scale and the opacity the pulse gives supernova_core and            *)
(* quasar_core_glow: part_001 125-128, part_002 468-477                    *)
PulseScale(v, name, t) ==
    IF v = "continuous" THEN 1000 + MulM(SinM(8 * t), 200)
    ELSE IF name = "supernova_core"
    THEN MulM(MulM(1000 - Progress(t), 15000), 1000 + MulM(SinM(20 * t), 200))
    ELSE 1000 + MulM(SinM(12 * t), 250)

PulseOpacity(v, name, t, old) ==
    IF v = "periodic" /\ name = "supernova_core"
    THEN Max(0, 1000 - MulM(Progress(t), 1500))
    ELSE old

(* additionalParticles.forEach: the objects aux[1..m] in order.  jets maps *)
(* a geometry to its position buffer; ds[k] are the draws for object k.    *)
RECURSIVE AuxiliariesFrame(_, _, _, _, _, _)
AuxiliariesFrame(v, aux, m, s, t, ds) ==
    IF m = 0 THEN [s EXCEPT !.jetlog = << >>]
    ELSE LET b == AuxiliariesFrame(v, aux, m - 1, s, t, ds)
             o == aux[m]
         IN  IF o.name = "quasar_jet"
             THEN LET stepped == JetStep(v, b.jets[o.geometry], ds[m])
                      jets == [b.jets EXCEPT ![o.geometry] = stepped]
                  IN  [b EXCEPT !.jets = jets,
                                !.jetlog = Append(@,
                                    [obj |-> o.id,
                                     moved |-> {aux[j].id : j \in
                                        {j \in 1..Len(aux) :
                                            /\ aux[j].name = "quasar_jet"
                                            /\ jets[aux[j].geometry] # b.jets[aux[j].geometry]}}])]
             ELSE IF o.name \in {"supernova_core", "quasar_core_glow"}
             THEN [b EXCEPT !.scale = PulseScale(v, o.name, t),
                            !.coreOpacity = PulseOpacity(v, o.name, t, @)]
             ELSE b

(* One run of animate at elapsed time t *)
AnimateBuffers(v, type, aux, s, meta, t, ds) ==
    AuxiliariesFrame(v, aux, Len(aux), StarsFrame(v, type, s, meta, t), t, ds)

(* The jets of the quasar branch: part_001 248-254, part_002 574-577 *)
JetParticle(v, d) ==
    IF v = "continuous" THEN <<MulM(d.x, 60), MulM(d.h, 15000), MulM(d.z, 60)>>
    ELSE <<MulM(d.x, 50), MulM(d.h, 20000), MulM(d.z, 50)>>

(* The buffers right after the generation effect.  The materials are       *)
(* constructed with opacity 0.8 (stars) and 1 (supernova_core).            *)
GeneratedBuffers(v, p, aux, ds) ==
    LET stars == EventStars(v, p, ds)
        jetGeometries == {aux[j].geometry : j \in {j \in 1..Len(aux) : aux[j].name = "quasar_jet"}}
    IN  [pos |-> stars.pos, col |-> stars.col, rotY |-> 0, opacity |-> 800,
         scale |-> 1000, coreOpacity |-> 1000,
         jets |-> [g \in jetGeometries |->
                     Flatten([k \in 1..Len(ds) |-> JetParticle(v, ds[k])], Len(ds))],
         jetlog |-> << >>]

----------------------------------------------------------------------------
(* App: the narration player.  Two revisions of App are in the repository: *)
(*                                                                         *)
(*   "manual"  src/App.tsx: a selection stops the narration, the user      *)
(*             starts it                                                   *)
(*   "auto"    src/unnamed/part_003: a selection loads and plays it        *)
(*                                                                         *)
(* An AudioBuffer is named by the item whose introduction it narrates.     *)
(* Times are in ticks of the AudioContext's clock; one tick is one second. *)

Items == {"SPIRAL", "QUASAR"}

AppRevisions == {"manual", "auto"}

(* buffer.duration of the narration of an item *)
Duration(item) == IF item = "SPIRAL" THEN MaxDuration ELSE MaxDuration - 1

NoMark == [kind |-> "none", pos |-> 0]

(* The App component after its first render and mount effects: the state   *)
(* hooks, the refs, the AudioBufferSourceNodes created, the calls of       *)
(* generateSpeech not yet settled, the requestAnimationFrame callbacks     *)
(* pending, and the AudioContext's clock                                   *)
NewApp(rev) ==
    [revision |-> rev,
     selectedItem |-> "SPIRAL",
     showWelcome |-> TRUE,
     isGeneratingAudio |-> FALSE,
     audioState |-> [isPlaying |-> FALSE, progress |-> 0, duration |-> 0, currentTime |-> 0],
     audioCache |-> {},
     audioContext |-> FALSE,
     sourceNode |-> 0,
     startedAt |-> 0,
     pausedAt |-> 0,
     animationFrame |-> [stored |-> FALSE, loose |-> 0],
     currentBuffer |-> Null,
     sources |-> << >>,
     requests |-> << >>,
     currentTime |-> 0,
     mark |-> NoMark,
     clicks |-> 0]

(* The playback position of a source at time t: source.start(0, offset)    *)
(* plays from offset until the end of the buffer                           *)
Position(src, t) ==
    LET p == src.offset + (t - src.start) IN
    IF p > Duration(src.buffer) THEN Duration(src.buffer) ELSE p

(* source.stop(): a source that is playing stops and its ended event is    *)
(* queued; on a source that has finished it has no effect                  *)
Stopped(src, t) ==
    IF src.status = "playing"
    THEN [src EXCEPT !.status = "stopped", !.event = TRUE]
    ELSE src

(* try { sourceNodeRef.current.stop(); } catch(e) {} *)
StopCurrent(a) ==
    IF a.sourceNode = 0 THEN a
    ELSE [a EXCEPT !.sources[a.sourceNode] = Stopped(@, a.currentTime)]

(* cancelAnimationFrame(animationFrameRef.current) *)
CancelFrame(a) == [a EXCEPT !.animationFrame.stored = FALSE]

(* stopAudio.  The manual revision also sets duration to 0. *)
StopAudio(a) ==
    LET b == CancelFrame(StopCurrent(a)) IN
    [b EXCEPT !.sourceNode = 0,
              !.pausedAt = 0,
              !.startedAt = 0,
              !.audioState = [isPlaying |-> FALSE, progress |-> 0, currentTime |-> 0,
                              duration |-> IF a.revision = "manual" THEN 0 ELSE @.duration],
              !.mark = [kind |-> "stop", pos |-> 0]]

PlayAudioKeepsPrevious(a, offset, seen, via) ==
    IF a.currentBuffer = Null \/ ~a.audioContext THEN a
    ELSE [a EXCEPT !.sources = Append(@,
                      [buffer |-> a.currentBuffer, start |-> a.currentTime,
                       offset |-> offset, seen |-> seen, via |-> via,
                       status |-> "playing", event |-> FALSE]),
                   !.sourceNode = Len(a.sources) + 1,
                   !.startedAt = a.currentTime - offset,
                   !.audioState.isPlaying = TRUE,
                   !.animationFrame.loose = @ + 1,
                   !.mark = [kind |-> "play", pos |-> offset]]

(* playAudio(offset).  seen is audioState.currentTime of the render whose  *)
(* playAudio this is: source.onended closes over it.  via records the      *)
(* caller.  A source started at or past the end of its buffer plays        *)
(* nothing and ends at once.                                               *)
PlayAudio(a, offset, seen, via) ==
    IF a.currentBuffer = Null \/ ~a.audioContext THEN a
    ELSE LET b == StopCurrent(a)
             ends == offset >= Duration(a.currentBuffer)
         IN  [b EXCEPT !.sources = Append(@,
                          [buffer |-> a.currentBuffer, start |-> a.currentTime,
                           offset |-> offset, seen |-> seen, via |-> via,
                           status |-> IF ends THEN "ended" ELSE "playing",
                           event |-> ends]),
                       !.sourceNode = Len(a.sources) + 1,
                       !.startedAt = a.currentTime - offset,
                       !.audioState.isPlaying = TRUE,
                       !.animationFrame.loose = @ + 1,
                       !.mark = [kind |-> "play", pos |-> offset]]

(* handleLoadAudio, from the buffer on: lines 87-89 *)
LoadBuffer(a, type, seen) ==
    PlayAudio([a EXCEPT !.currentBuffer = type,
                        !.audioState.duration = Duration(type),
                        !.audioState.progress = 0,
                        !.audioState.currentTime = 0],
              0, seen, "load")

(* handleLoadAudio(type), up to the await.  The auto revision starts with  *)
(* stopAudio().  seen is audioState.currentTime of the render whose        *)
(* handleLoadAudio this is.                                                *)
HandleLoadAudio(a, type, seen) ==
    LET b == IF a.revision = "auto" THEN StopAudio(a) ELSE a
        c == [b EXCEPT !.audioContext = TRUE]
    IN  IF type \in c.audioCache
        THEN LoadBuffer(c, type, seen)
        ELSE [c EXCEPT !.isGeneratingAudio = TRUE,
                       !.requests = Append(@, [type |-> type, seen |-> seen])]

Remove(seq, k) == SubSeq(seq, 1, k - 1) \o SubSeq(seq, k + 1, Len(seq))

(* generateSpeech resolves for the k-th call in flight: lines 78, 84-89 *)
SpeechResolved(a, k) ==
    LET r == a.requests[k]
        b == [a EXCEPT !.requests = Remove(@, k)]
        c == [b EXCEPT !.audioCache = @ \cup {r.type},
                       !.isGeneratingAudio = FALSE]
    IN  LoadBuffer(c, r.type, r.seen)

(* generateSpeech rejects: the catch block *)
SpeechRejected(a, k) ==
    [a EXCEPT !.requests = Remove(@, k), !.isGeneratingAudio = FALSE]

(* pausedAtRef.current = audioContextRef.current!.currentTime - startedAtRef.current *)
PausedAt(a) == a.currentTime - a.startedAt

(* togglePlayPause, the branch taken while audioState.isPlaying *)
Pause(a) ==
    LET playing == a.sourceNode # 0 /\ a.sources[a.sourceNode].status = "playing"
        pos == IF playing THEN Position(a.sources[a.sourceNode], a.currentTime) ELSE 0
        b == CancelFrame(StopCurrent(a))
    IN  [b EXCEPT !.sourceNode = 0,
                  !.pausedAt = PausedAt(a),
                  !.audioState.isPlaying = FALSE,
                  !.mark = IF playing THEN [kind |-> "pause", pos |-> pos] ELSE @]

(* togglePlayPause *)
TogglePlayPause(a) ==
    IF a.revision = "manual" /\ a.currentBuffer = Null
    THEN IF a.selectedItem \notin a.audioCache
         THEN HandleLoadAudio(a, a.selectedItem, a.audioState.currentTime)
         ELSE PlayAudio([a EXCEPT !.currentBuffer = a.selectedItem,
                                  !.audioState.duration = Duration(a.selectedItem)],
                        0, a.audioState.currentTime, "cache")
    ELSE IF a.audioState.isPlaying
    THEN Pause(a)
    ELSE PlayAudio(a, IF a.audioState.progress >= 100 THEN 0 ELSE a.pausedAt,
                   a.audioState.currentTime, "toggle")

(* The effect on [selectedItem] (manual) or [selectedItem, showWelcome]    *)
(* (auto), after the cleanup of the effect of the render before.  The      *)
(* state updates of the cleanup are not yet in the render of the effect.   *)
SelectionEffect(a) ==
    IF a.revision = "manual"
    THEN [StopAudio(a) EXCEPT !.currentBuffer = Null]
    ELSE LET b == StopAudio(a) IN
         IF ~b.showWelcome
         THEN HandleLoadAudio(b, b.selectedItem, a.audioState.currentTime)
         ELSE b

(* updateProgress: one pending callback *)
UpdateProgress(a) ==
    IF ~a.audioContext \/ a.currentBuffer = Null \/ a.sourceNode = 0 THEN a
    ELSE LET currentTime == a.currentTime - a.startedAt
             duration == Duration(a.currentBuffer)
             ratio == (currentTime * 100) \div duration
             progress == IF ratio > 100 THEN 100 ELSE ratio
         IN  IF currentTime <= duration
             THEN [a EXCEPT !.audioState.currentTime = currentTime,
                            !.audioState.progress = progress,
                            !.animationFrame =
                                [stored |-> TRUE,
                                 loose |-> @.loose + (IF @.stored THEN 1 ELSE 0)]]
             ELSE [a EXCEPT !.audioState.isPlaying = FALSE,
                            !.audioState.progress = 100,
                            !.audioState.currentTime = duration]

(* An animation frame: the browser runs the n callbacks that were pending  *)
RECURSIVE RunCallbacks(_, _)
RunCallbacks(a, n) == IF n = 0 THEN a ELSE UpdateProgress(RunCallbacks(a, n - 1))

AnimationFrame(a) ==
    LET n == a.animationFrame.loose + (IF a.animationFrame.stored THEN 1 ELSE 0) IN
    RunCallbacks([a EXCEPT !.animationFrame = [stored |-> FALSE, loose |-> 0]], n)

(* source.onended of source k.  (The auto revision never resets            *)
(* currentBufferRef.current to null once a source exists.)                 *)
OnEnded(a, k) ==
    LET src == a.sources[k]
        b == [a EXCEPT !.sources[k].event = FALSE]
    IN  IF a.currentBuffer = Null THEN b
        ELSE IF Abs(src.seen - Duration(a.currentBuffer)) * 10 < 2
        THEN CancelFrame([b EXCEPT !.audioState.isPlaying = FALSE,
                                   !.audioState.progress = 100])
        ELSE b

(* The AudioContext's clock advances by one tick: a source that reaches    *)
(* the end of its buffer has ended                                         *)
ClockAdvanced(a) ==
    LET t == a.currentTime + 1
        ended(src) == src.status = "playing" /\ Position(src, t) >= Duration(src.buffer)
    IN  [a EXCEPT !.currentTime = t,
                  !.sources = [k \in DOMAIN a.sources |->
                                 IF ended(a.sources[k])
                                 THEN [a.sources[k] EXCEPT
                                          !.status = "ended", !.event = TRUE]
                                 ELSE a.sources[k]],
                  !.mark = IF \E k \in DOMAIN a.sources : ended(a.sources[k])
                           THEN [kind |-> "end", pos |-> 0] ELSE @]

(* A source node that has finished, whose ended event was dispatched and   *)
(* which sourceNodeRef does not hold is garbage.  sourceNodeRef is an      *)
(* index into the sources kept.                                            *)
Collected(a) ==
    LET keep == {k \in DOMAIN a.sources :
                    \/ a.sources[k].status = "playing"
                    \/ a.sources[k].event
                    \/ k = a.sourceNode}
        rank(k) == Cardinality({i \in keep : i <= k})
    IN  [a EXCEPT !.sources = [j \in 1..Cardinality(keep) |->
                                 a.sources[CHOOSE k \in keep : rank(k) = j]],
                  !.sourceNode = IF a.sourceNode = 0 THEN 0 ELSE rank(a.sourceNode)]

(* A click on a control of the sidebar *)
Clicked(a) == [a EXCEPT !.clicks = @ + 1]

(* The player before anything happened *)
AudioIdle == app = NewApp("manual")

----------------------------------------------------------------------------
(* GeminiService: the live voice session.  Times are in ticks of the       *)
(* output context's clock; a chunk is known by its duration.  A message    *)
(* of the server carries a chunk of audio (audio > 0) or none, and the     *)
(* interrupted flag.                                                       *)

Messages == [audio : 0..MaxChunk, interrupted : BOOLEAN]

(* The instance after construction: nextStartTime = 0, sources = new Set.  *)
(* pending holds the message whose handler waits at await decodeAudioData; *)
(* received, scheduled, interruptions, lastEnd and handled record what was *)
(* done.                                                                   *)
NewService ==
    [nextStartTime |-> 0, sources |-> {}, currentTime |-> 0,
     pending |-> << >>, received |-> 0, scheduled |-> 0, interruptions |-> 0,
     lastEnd |-> 0, handled |-> "none"]

(* Math.max(this.nextStartTime, this.outputAudioContext.currentTime) *)
StartTime(v) == Max(v.nextStartTime, v.currentTime)

NextStartKept(start, duration) == start

(* this.nextStartTime += audioBuffer.duration *)
NextStartAfter(start, duration) == start + duration

(* createBufferSource, the ended listener, source.start(nextStartTime),    *)
(* nextStartTime += duration, sources.add(source).  A source started with  *)
(* a time that has passed begins at once (begun).                          *)
Schedule(v, duration) ==
    LET source == [seq |-> v.scheduled + 1, when |-> v.nextStartTime,
                   duration |-> duration,
                   begun |-> Max(v.nextStartTime, v.currentTime),
                   after |-> v.lastEnd]
    IN [v EXCEPT !.sources = @ \cup {source},
                 !.nextStartTime = NextStartAfter(@, duration),
                 !.scheduled = @ + 1,
                 !.lastEnd = source.when + duration]

(* sources.forEach(s => s.stop()); sources.clear(); nextStartTime = 0 *)
Interrupt(v) ==
    [v EXCEPT !.sources = {}, !.nextStartTime = 0, !.lastEnd = 0,
              !.interruptions = @ + 1]

(* The end of onmessage: the interrupted branch, then the handler returns *)
Finish(v, msg) ==
    LET w == IF msg.interrupted THEN Interrupt(v) ELSE v
    IN [w EXCEPT !.pending = << >>,
                 !.handled = IF msg.interrupted THEN "interrupted"
                             ELSE IF msg.audio > 0 THEN "audio" ELSE "other"]

(* onmessage up to its await: with audio, nextStartTime is raised to the   *)
(* clock and the handler waits for decodeAudioData; without, it runs to    *)
(* its end.                                                                *)
OnMessage(v, msg) ==
    LET w == [v EXCEPT !.received = @ + 1]
    IN IF msg.audio > 0
       THEN [w EXCEPT !.nextStartTime = StartTime(v), !.pending = <<msg>>,
                      !.handled = "pending"]
       ELSE Finish(w, msg)

(* onmessage after its await *)
Decoded(v) == Finish(Schedule(v, v.pending[1].audio), v.pending[1])

(* The ended listener of a source: sources.delete(source) *)
SourceEnded(v, source) == [v EXCEPT !.sources = @ \ {source}]

----------------------------------------------------------------------------
(* GeminiService: createBlob.  A sample is a number of SampleLevels-ths,   *)
(* from -1 to 1.                                                           *)

Samples == (0 - SampleLevels)..SampleLevels

(* The factor of createBlob *)
Scale == 32768

(* The number of values of a 16 bit integer *)
Int16Range == 65536

(* The integral part of num / den, as ToNumber -> ToInt16 truncates *)
Truncated(num, den) ==
    IF num >= 0 THEN num \div den ELSE 0 - ((0 - num) \div den)

(* The conversion of an assignment to an element of an Int16Array: the     *)
(* integral part modulo 2^16, read as a two's complement number.           *)
ToInt16(num, den) ==
    LET m == Truncated(num, den) % Int16Range
    IN IF m >= Int16Range \div 2 THEN m - Int16Range ELSE m

(* int16[i] = data[i] * 32768 *)
Converted(sample) == ToInt16(sample * Scale, SampleLevels)

(* const int16 = new Int16Array(l), before the loop *)
NewBlob(data) == [data |-> data, int16 |-> [k \in DOMAIN data |-> 0], i |-> 0]

(* One iteration of the loop of createBlob *)
ConvertNext(b) ==
    [b EXCEPT !.int16[b.i + 1] = Converted(b.data[b.i + 1]), !.i = @ + 1]

(* No voice session yet and no call of createBlob *)
ServiceIdle == voice = NewService /\ blob = NewBlob(<< >>)

----------------------------------------------------------------------------
(* The props.  App renders <GalaxyScene params={GALAXY_CONFIGS[selected]}>; *)
(* the table is not among the sources, so a configuration is an input.     *)

(* The color pairs tried: both well formed, or one of the two malformed *)
StylePairs == {<<"#ff6030", "#1b3984">>, <<"bogus", "#1b3984">>, <<"#ff6030", "bogus">>}

(* GalaxyParams.  radius and randomness are in hundredths; spin is in      *)
(* eighths of a turn per unit of radius.                                   *)
Config(type, n, radius, branches, inside, outside) ==
    [type |-> type, starsCount |-> n, radius |-> radius, branches |-> branches,
     spin |-> 1, randomness |-> 20,
     insideColor |-> inside, outsideColor |-> outside]

SceneConfigs ==
    {Config(t, MaxStars, 500, 3, c[1], c[2]) : t \in Types, c \in StylePairs}

InitialConfig == Config("SPIRAL", MaxStars, 500, 3, "#ff6030", "#1b3984")

(* The passive effects of a commit, in the order the component declares    *)
(* them.  The overlay revision has no paramsRef.                           *)
EffectsOnMount(v) == IF v = "overlay" THEN <<"mount", "gen">> ELSE <<"sync", "mount", "gen">>
EffectsOnUpdate(v) == IF v = "overlay" THEN <<"gen">> ELSE <<"sync", "gen">>

LifecycleInit ==
    /\ variant \in Variants
    /\ params = InitialConfig
    /\ paramsRef = InitialConfig
    /\ sceneRef = NoSceneRef
    /\ objects = << >>
    /\ scene = {}
    /\ created = {}
    /\ disposed = {}
    /\ clock = NewClock
    /\ now = 0
    /\ queue = EffectsOnMount(variant)
    /\ flushing = FALSE
    /\ raf = FALSE
    /\ mounted = "no"
    /\ container = {}
    /\ gen = 0
    /\ changes = 0
    /\ frame = NoFrame

GeneratorIdle ==
    /\ gcfg = InitialConfig
    /\ gi = 0
    /\ gpos = << >>
    /\ gcol = << >>
    /\ gmix = << >>
    /\ gout = [status |-> "idle", stars |-> << >>, aux |-> << >>]

KinematicsIdle ==
    /\ kcfg = InitialConfig
    /\ kaux = << >>
    /\ kmeta = NoMetadata
    /\ kalpha = << >>
    /\ krun = << >>
    /\ klast = << >>
    /\ kframes = << >>
    /\ know = 0

Init == LifecycleInit /\ GeneratorIdle /\ KinematicsIdle /\ AudioIdle /\ ServiceIdle

(* Leaving an effect: the flush ends with the last effect of the commit *)
Leave ==
    /\ queue' = Tail(queue)
    /\ flushing' = (Tail(queue) # << >>)

StaleParamsRef(ref, p) == ref

(* useEffect(() => { paramsRef.current = params; }, [params]) *)
SyncedParamsRef(ref, p) == p

SyncEffect ==
    /\ queue # << >> /\ Head(queue) = "sync"
    /\ paramsRef' = SyncedParamsRef(paramsRef, params)
    /\ Leave
    /\ UNCHANGED <<variant, params, sceneRef, objects, scene, created, disposed,
                   clock, now, raf, mounted, container, gen, changes, frame>>

(* The mount effect: renderer, clock, sceneRef, and the first, synchronous *)
(* call of animate.  The container div exists when effects run.            *)
MountEffect ==
    /\ queue # << >> /\ Head(queue) = "mount"
    /\ LET sref == [set |-> TRUE, stars |-> NoObject, additionalParticles |-> << >>]
           a == Animation(variant, paramsRef, sref, objects, NewClock, now, "yes")
       IN  /\ sceneRef' = sref
           /\ clock' = a.clock
           /\ objects' = a.objects
           /\ frame' = a.frame
           /\ raf' = a.raf
    /\ created' = created \cup {Renderer}
    /\ container' = {"canvas"}
    /\ mounted' = "yes"
    /\ Leave
    /\ UNCHANGED <<variant, params, paramsRef, scene, disposed, now, gen, changes>>

AuxiliariesKept(old) == old

(* sceneRef.current.additionalParticles = [] *)
AuxiliariesAfterDispose(old) == << >>

(* scene.remove(o) for the old stars and every old auxiliary *)
SceneAfterRemove(children, old) == children \ old

(* o.geometry.dispose(); o.material.dispose() for the old stars and every  *)
(* old auxiliary.  The star texture the materials map is not disposed.     *)
DisposedWith(objs, old) ==
    UNION {{objs[id].geometry, objs[id].material} : id \in old}

Ids(seq) == [i \in 1..Len(seq) |-> seq[i].id]

(* The objects still referenced from sceneRef.current or the scene; the    *)
(* others are garbage.                                                     *)
Referenced(sref, children) ==
    (Range(sref.additionalParticles) \cup {sref.stars} \cup children) \ {NoObject}

(* The generation effect, run after every commit that changed params *)
GenerationEffect ==
    /\ queue # << >> /\ Head(queue) = "gen"
    /\ IF ~sceneRef.set
       THEN UNCHANGED <<sceneRef, objects, scene, created, disposed, clock, gen>>
       ELSE LET g == gen + 1
                oldStars == sceneRef.stars
                old == Range(sceneRef.additionalParticles)
                         \cup (IF oldStars = NoObject THEN {} ELSE {oldStars})
                stars == NewStars(variant, params, g)
                aux == NewAuxiliaries(variant, params, g)
                new == stars \o aux
                sref == [set |-> TRUE,
                         stars |-> IF stars = << >> THEN oldStars ELSE stars[1].id,
                         additionalParticles |->
                             AuxiliariesAfterDispose(sceneRef.additionalParticles)
                               \o Ids(aux)]
                children == SceneAfterRemove(scene, old) \cup Range(Ids(new))
            IN  /\ scene' = children
                /\ disposed' = disposed \cup DisposedWith(objects, old)
                /\ created' = created \cup {Tex(g)}
                                \cup UNION {{o.geometry, o.material} : o \in Range(new)}
                /\ objects' = [id \in Referenced(sref, children) |->
                                 IF id \in Range(Ids(new))
                                 THEN CHOOSE o \in Range(new) : o.id = id
                                 ELSE objects[id]]
                /\ sceneRef' = sref
                /\ clock' = ClockAfterGeneration(clock, now)
                /\ gen' = g
    /\ Leave
    /\ UNCHANGED <<variant, params, paramsRef, now, raf, mounted, container,
                   changes, frame>>

(* A render with a new params prop: its effects are then pending *)
Select(p) ==
    /\ mounted = "yes" /\ queue = << >>
    /\ changes < MaxChanges
    /\ p # params
    /\ params' = p
    /\ queue' = EffectsOnUpdate(variant)
    /\ changes' = changes + 1
    /\ UNCHANGED <<variant, paramsRef, sceneRef, objects, scene, created, disposed,
                   clock, now, flushing, raf, mounted, container, gen, frame>>

(* The cleanup of the mount effect.  containerRef.current is the div or    *)
(* already null, depending on when React detaches the ref.                 *)
Unmount(refLive) ==
    /\ mounted = "yes" /\ queue = << >>
    /\ disposed' = disposed \cup {Renderer}
    /\ container' = IF refLive THEN {} ELSE container
    /\ mounted' = "gone"
    /\ UNCHANGED <<variant, params, paramsRef, sceneRef, objects, scene, created,
                   clock, now, queue, flushing, raf, gen, changes, frame>>

(* A frame: the browser calls animate.  Effects of one flush run to        *)
(* completion, so no frame falls between them.                             *)
Animate ==
    /\ raf /\ ~flushing
    /\ LET a == Animation(variant, paramsRef, sceneRef, objects, clock, now, mounted)
       IN  /\ clock' = a.clock
           /\ objects' = a.objects
           /\ frame' = a.frame
           /\ raf' = a.raf
    /\ UNCHANGED <<variant, params, paramsRef, sceneRef, scene, created, disposed,
                   now, queue, flushing, mounted, container, gen, changes>>

(* Host time passes *)
Tick ==
    /\ queue = << >>
    /\ now < MaxTime
    /\ now' = now + 1
    /\ UNCHANGED <<variant, params, paramsRef, sceneRef, objects, scene, created,
                   disposed, clock, queue, flushing, raf, mounted, container, gen,
                   changes, frame>>

Next ==
    \/ (SyncEffect /\ UNCHANGED <<gvars, kvars, avars, svars>>)
    \/ (MountEffect /\ UNCHANGED <<gvars, kvars, avars, svars>>)
    \/ (GenerationEffect /\ UNCHANGED <<gvars, kvars, avars, svars>>)
    \/ (\E p \in SceneConfigs : Select(p) /\ UNCHANGED <<gvars, kvars, avars, svars>>)
    \/ (\E refLive \in BOOLEAN : Unmount(refLive) /\ UNCHANGED <<gvars, kvars, avars, svars>>)
    \/ (Animate /\ UNCHANGED <<gvars, kvars, avars, svars>>)
    \/ (Tick /\ UNCHANGED <<gvars, kvars, avars, svars>>)

Spec == Init /\ [][Next]_vars

----------------------------------------------------------------------------
(* Properties of the lifecycle *)

(* Every effect of the last commit has run *)
Settled == queue = << >> /\ gen >= 1

ActiveObjects == Referenced(sceneRef, {})

(* C1: once the generation effect has run for a configuration, every       *)
(* auxiliary in sceneRef.current.additionalParticles and every child of    *)
(* the scene was built by that run, and the list is exactly the list of    *)
(* auxiliaries the current configuration generates.                        *)
C1_NoPriorAuxiliaries ==
    Settled =>
        /\ \A id \in Range(sceneRef.additionalParticles) : id[1] = gen
        /\ \A id \in scene : id[1] = gen
        /\ sceneRef.additionalParticles = Ids(NewAuxiliaries(variant, params, gen))

C1_Witness ==
    /\ Settled /\ gen >= 2
    /\ Geom(gen - 1, 1) \in created
    /\ sceneRef.additionalParticles # << >>

(* C2: in the revisions that keep paramsRef, a frame that steps stars      *)
(* selects the motion law by the type the stars were generated for, the    *)
(* auxiliaries it steps are of the same generation as the stars, and the   *)
(* law finds the per-particle metadata it indexes.                         *)
C2_FrameReadsOneGeneration ==
    (variant # "overlay" /\ frame.stars # NoObject) =>
        /\ frame.type = frame.starsType
        /\ \A id \in Range(frame.aux) : id[1] = frame.stars[1]
        /\ ~frame.threw

C2_Witness ==
    /\ variant # "overlay"
    /\ frame.stars[1] >= 2
    /\ frame.law \in {"supernova", "collision"}
    /\ frame.starsType \in {"SUPERNOVA", "COLLISION"}

(* C3: once the generation effect has run, sceneRef.current.stars is an    *)
(* object built by that run, in the scene and not disposed.                *)
C3_ActiveStarsFresh ==
    Settled =>
        /\ sceneRef.stars # NoObject
        /\ sceneRef.stars[1] = gen
        /\ sceneRef.stars \in scene
        /\ objects[sceneRef.stars].geometry \notin disposed
        /\ objects[sceneRef.stars].material \notin disposed

(* C4: the generation effect leaves the clock as it is, a started clock    *)
(* is never started again, and the elapsed time frames read never          *)
(* decreases.                                                              *)
C4_ClockNeverReset ==
    [][ /\ (gen' # gen => clock' = clock)
        /\ (clock.running => clock'.running /\ clock'.startTime = clock.startTime)
        /\ frame'.elapsedTime >= frame.elapsedTime ]_vars

C4_Witness ==
    /\ gen >= 2
    /\ frame.stars # NoObject /\ frame.stars[1] = gen
    /\ frame.elapsedTime > 0

(* C5: after the cleanup of the mount effect the renderer, and the         *)
(* geometry and material of the stars and of every auxiliary, are          *)
(* disposed, and the canvas is out of the container.                       *)
C5_TeardownDisposesAll ==
    mounted = "gone" =>
        /\ Renderer \in disposed
        /\ container = {}
        /\ \A id \in ActiveObjects :
              objects[id].geometry \in disposed /\ objects[id].material \in disposed

(* C6: once the generation effect has run, every geometry, material and    *)
(* star texture created by an earlier run is disposed.                     *)
C6_PreviousResourcesReleased ==
    Settled =>
        \A r \in created : (r.kind # "renderer" /\ r.gen < gen) => r \in disposed

(* C9: when a color of the configuration is malformed, the generation      *)
(* effect installs nothing: the stars are those of an earlier run, in the  *)
(* scene and not disposed, and no auxiliary of this run is listed.         *)
MalformedColor(p) == ~WellFormed(p.insideColor) \/ ~WellFormed(p.outsideColor)

C9_MalformedColorKeepsPrevious ==
    (Settled /\ gen >= 2 /\ MalformedColor(params)) =>
        /\ sceneRef.stars # NoObject
        /\ sceneRef.stars[1] < gen
        /\ sceneRef.stars \in scene
        /\ objects[sceneRef.stars].geometry \notin disposed
        /\ \A id \in Range(sceneRef.additionalParticles) : id[1] < gen

----------------------------------------------------------------------------
(* The generator alone, on bounded configurations *)

GenTypes == Types \cup {"UNKNOWN"}

GenConfigs ==
    {Config(t, n, radius, b, c[1], c[2]) :
        t \in GenTypes, n \in 0..MaxStars, radius \in {0, 500}, b \in {1, 3},
        c \in StylePairs}

(* The branches whose loop is modelled value by value *)
Sampled(v, type) == GenerationBranch(v, type) \in {"standard", "regular"}

GenInit ==
    /\ LifecycleInit
    /\ KinematicsIdle
    /\ AudioIdle /\ ServiceIdle
    /\ gcfg \in GenConfigs
    /\ gi = 0
    /\ gpos = << >>
    /\ gcol = << >>
    /\ gmix = << >>
    /\ gout = [status |-> "start", stars |-> << >>, aux |-> << >>]

(* The buffers are allocated and the objects built; the loop follows *)
Allocate ==
    /\ gout.status = "start"
    /\ gout' = [status |-> IF Sampled(variant, gcfg.type) /\ gcfg.starsCount > 0
                           THEN "loop" ELSE "done",
                stars |-> NewStars(variant, gcfg, 1),
                aux |-> NewAuxiliaries(variant, gcfg, 1)]
    /\ UNCHANGED <<gcfg, gi, gpos, gcol, gmix>>

(* for (let i = 0; i < count; i++) { ... }: one iteration *)
WriteParticle(d) ==
    /\ gout.status = "loop"
    /\ gi < gcfg.starsCount
    /\ LET w == StandardParticle(variant, gcfg, gi, d) IN
       /\ gpos' = gpos \o w.pos
       /\ gcol' = gcol \o w.col
       /\ gmix' = Append(gmix, [r |-> w.r, alpha |-> w.alpha, rule |-> w.rule,
                               angle |-> w.angle])
    /\ gi' = gi + 1
    /\ gout' = [gout EXCEPT !.status = IF gi + 1 < gcfg.starsCount THEN "loop" ELSE "done"]
    /\ UNCHANGED gcfg

GenNext ==
    \/ (Allocate /\ UNCHANGED <<lvars, kvars, avars, svars>>)
    \/ (\E d \in Draws : WriteParticle(d) /\ UNCHANGED <<lvars, kvars, avars, svars>>)

SpecGen == GenInit /\ [][GenNext]_vars

----------------------------------------------------------------------------
(* The frame loop alone, on the buffers of one generation *)

Runs == {1, 2}

(* The color pairs tried where the colors of the buffers are followed *)
EventStyles == {<<"#ff6030", "#1b3984">>, <<"#ff6030", "#ffffff">>}

FrameConfigs ==
    {p \in {Config(t, MaxStars, 500, 3, c[1], c[2]) : t \in Types, c \in EventStyles} :
        p.type \in {"QUASAR", "COLLISION"} \/ p.outsideColor = "#1b3984"}

(* The state right after the mount of v with configuration p *)
FramesStart(v, p) ==
    /\ LifecycleInit
    /\ GeneratorIdle
    /\ AudioIdle /\ ServiceIdle
    /\ variant = v
    /\ kcfg = p
    /\ kaux = NewAuxiliaries(v, p, 1)
    /\ \E ds \in [1..MaxParticles -> EventDraws] :
          /\ krun = [i \in Runs |-> GeneratedBuffers(v, p, NewAuxiliaries(v, p, 1), ds)]
          /\ kmeta = EventStars(v, p, ds).meta
          /\ kalpha = EventStars(v, p, ds).alpha
    /\ klast = [i \in Runs |-> -1]
    /\ kframes = [i \in Runs |-> 0]
    /\ know = 0

FramesInit ==
    \E v \in {"continuous", "periodic"}, p \in FrameConfigs : FramesStart(v, p)

(* The indices of the jets in additionalParticles *)
JetIndices(aux) == {j \in 1..Len(aux) : aux[j].name = "quasar_jet"}

(* clock.getElapsedTime() after know advances of the clock, milliseconds *)
ElapsedTime(k) == k * 2500

(* Run i: the browser calls animate; at most limit frames are followed *)
FrameOf(i, limit) ==
    /\ kframes[i] < limit
    /\ \E ds \in [JetIndices(kaux) -> EventDraws] :
          krun' = [krun EXCEPT ![i] =
                      AnimateBuffers(variant, kcfg.type, kaux, krun[i], kmeta,
                                     ElapsedTime(know), ds)]
    /\ kmeta' = MetadataAfterFrame(kmeta)
    /\ klast' = [klast EXCEPT ![i] = ElapsedTime(know)]
    /\ kframes' = [kframes EXCEPT ![i] = @ + 1]
    /\ UNCHANGED <<kcfg, kaux, kalpha, know>>

(* The clock advances; frames are followed at multiples of 2.5 s *)
ClockTick ==
    /\ know < MaxElapsed
    /\ know' = know + 1
    /\ UNCHANGED <<kcfg, kaux, kmeta, kalpha, krun, klast, kframes>>

FramesNext ==
    \/ (FrameOf(1, MaxFrames) /\ UNCHANGED <<lvars, gvars, avars, svars>>)
    \/ (FrameOf(2, 1) /\ UNCHANGED <<lvars, gvars, avars, svars>>)
    \/ (ClockTick /\ UNCHANGED <<lvars, gvars, avars, svars>>)

SpecFrames == FramesInit /\ [][FramesNext]_vars

LongInit == \E p \in FrameConfigs : p.type = "SUPERNOVA" /\ FramesStart("continuous", p)

LongNext ==
    \/ (FrameOf(1, MaxSteps) /\ UNCHANGED <<lvars, gvars, avars, svars>>)
    \/ (ClockTick /\ UNCHANGED <<lvars, gvars, avars, svars>>)

SpecLong == LongInit /\ [][LongNext]_vars

----------------------------------------------------------------------------
(* The narration player alone *)

AudioInit ==
    /\ LifecycleInit
    /\ variant = "continuous"
    /\ GeneratorIdle
    /\ KinematicsIdle
    /\ \E rev \in AppRevisions : app = NewApp(rev)
    /\ ServiceIdle

(* The button of the welcome overlay: setShowWelcome(false) *)
CloseWelcome ==
    /\ app.showWelcome
    /\ LET a == [app EXCEPT !.showWelcome = FALSE] IN
       app' = Collected(IF a.revision = "auto" THEN SelectionEffect(a) ELSE a)

(* The controls of the sidebar lie under the welcome overlay; at most n    *)
(* clicks are followed                                                     *)
CanClick(n) == ~app.showWelcome /\ app.clicks < n

(* A button of the item lists: setSelectedItem(item) *)
SelectItem(item, n) ==
    /\ CanClick(n)
    /\ item # app.selectedItem
    /\ app' = Collected(SelectionEffect(Clicked([app EXCEPT !.selectedItem = item])))

(* The stop button *)
ClickStop(n) ==
    /\ CanClick(n)
    /\ app' = Collected(StopAudio(Clicked(app)))

(* The play / pause button, disabled while isGeneratingAudio *)
ClickPlayPause(n) ==
    /\ CanClick(n)
    /\ ~app.isGeneratingAudio
    /\ app' = Collected(TogglePlayPause(Clicked(app)))

(* The reload button, disabled while isGeneratingAudio *)
ClickReload(n) ==
    /\ CanClick(n)
    /\ ~app.isGeneratingAudio
    /\ app' = Collected(HandleLoadAudio(Clicked(app), app.selectedItem,
                                        app.audioState.currentTime))

(* A call of generateSpeech settles *)
SpeechResolves(k) ==
    /\ k \in DOMAIN app.requests
    /\ app' = Collected(SpeechResolved(app, k))

SpeechRejects(k) ==
    /\ k \in DOMAIN app.requests
    /\ app' = Collected(SpeechRejected(app, k))

(* The browser runs the pending requestAnimationFrame callbacks *)
Frame ==
    /\ app.animationFrame # [stored |-> FALSE, loose |-> 0]
    /\ app' = Collected(AnimationFrame(app))

(* The browser dispatches the ended event of source k *)
Ended(k) ==
    /\ k \in DOMAIN app.sources
    /\ app.sources[k].event
    /\ app' = Collected(OnEnded(app, k))

(* The audio clock advances, up to time t *)
AudioTick(t) ==
    /\ app.currentTime < t
    /\ app' = Collected(ClockAdvanced(app))

(* What the browser and the speech service do *)
Environment(t) ==
    \/ (\E k \in DOMAIN app.requests : SpeechResolves(k) /\ UNCHANGED <<lvars, gvars, kvars, svars>>)
    \/ (\E k \in DOMAIN app.requests : SpeechRejects(k) /\ UNCHANGED <<lvars, gvars, kvars, svars>>)
    \/ (Frame /\ UNCHANGED <<lvars, gvars, kvars, svars>>)
    \/ (\E k \in DOMAIN app.sources : Ended(k) /\ UNCHANGED <<lvars, gvars, kvars, svars>>)
    \/ (AudioTick(t) /\ UNCHANGED <<lvars, gvars, kvars, svars>>)

AudioNext ==
    \/ (CloseWelcome /\ UNCHANGED <<lvars, gvars, kvars, svars>>)
    \/ (\E item \in Items : SelectItem(item, MaxClicks) /\ UNCHANGED <<lvars, gvars, kvars, svars>>)
    \/ (ClickStop(MaxClicks) /\ UNCHANGED <<lvars, gvars, kvars, svars>>)
    \/ (ClickPlayPause(MaxClicks) /\ UNCHANGED <<lvars, gvars, kvars, svars>>)
    \/ (ClickReload(MaxClicks) /\ UNCHANGED <<lvars, gvars, kvars, svars>>)
    \/ Environment(MaxAudioTime)

SpecAudio == AudioInit /\ [][AudioNext]_vars

(* The player with the selection left alone, followed for longer *)
PlayerNext ==
    \/ (CloseWelcome /\ UNCHANGED <<lvars, gvars, kvars, svars>>)
    \/ (ClickStop(MaxPresses) /\ UNCHANGED <<lvars, gvars, kvars, svars>>)
    \/ (ClickPlayPause(MaxPresses) /\ UNCHANGED <<lvars, gvars, kvars, svars>>)
    \/ (ClickReload(MaxPresses) /\ UNCHANGED <<lvars, gvars, kvars, svars>>)
    \/ Environment(MaxPlayTime)

SpecPlayer == AudioInit /\ [][PlayerNext]_vars

----------------------------------------------------------------------------
(* The live voice session alone.  The server's messages arrive one per     *)
(* task of the event loop; the handler's continuation after its await is a *)
(* microtask, so it runs before the next message is handled, while the     *)
(* clock of the audio context, kept by the rendering thread, may advance.  *)

VoiceInit ==
    /\ LifecycleInit
    /\ variant = "continuous"
    /\ GeneratorIdle
    /\ KinematicsIdle
    /\ AudioIdle /\ ServiceIdle

Receive(msg) ==
    /\ voice.pending = << >>
    /\ voice.received < MaxMessages
    /\ voice' = OnMessage(voice, msg)

Resume ==
    /\ voice.pending # << >>
    /\ voice' = Decoded(voice)

ChunkEnded ==
    \E source \in voice.sources :
        /\ source.begun + source.duration <= voice.currentTime
        /\ voice' = SourceEnded(voice, source)

VoiceTick ==
    /\ voice.currentTime < MaxVoiceTime
    /\ voice' = [voice EXCEPT !.currentTime = @ + 1]

VoiceNext ==
    \/ (\E msg \in Messages : Receive(msg) /\ UNCHANGED <<lvars, gvars, kvars, avars, blob>>)
    \/ (Resume /\ UNCHANGED <<lvars, gvars, kvars, avars, blob>>)
    \/ (ChunkEnded /\ UNCHANGED <<lvars, gvars, kvars, avars, blob>>)
    \/ (VoiceTick /\ UNCHANGED <<lvars, gvars, kvars, avars, blob>>)

SpecVoice == VoiceInit /\ [][VoiceNext]_vars

----------------------------------------------------------------------------
(* createBlob alone, on every buffer of up to MaxSamples samples *)

SampleBuffers == UNION {[1..n -> Samples] : n \in 1..MaxSamples}

BlobInit ==
    /\ LifecycleInit
    /\ variant = "continuous"
    /\ GeneratorIdle
    /\ KinematicsIdle
    /\ AudioIdle
    /\ voice = NewService
    /\ \E data \in SampleBuffers : blob = NewBlob(data)

ConvertSample ==
    /\ blob.i < Len(blob.data)
    /\ blob' = ConvertNext(blob)

BlobNext == ConvertSample /\ UNCHANGED <<lvars, gvars, kvars, avars, voice>>

SpecBlob == BlobInit /\ [][BlobNext]_vars

----------------------------------------------------------------------------
(* Properties of the generator *)

Generated == gout.status = "done"

C8_UnknownTypeRejected ==
    (Generated /\ gcfg.type \notin Types) =>
        /\ gout.stars = << >>
        /\ gout.aux = << >>
        /\ gpos = << >>

(* C10: for radius = 0, branches = 1 or starsCount = 0 every value the     *)
(* standard branch writes is a number, and the buffers are empty for       *)
(* starsCount = 0.                                                         *)
C10_DegenerateInputsValid ==
    (/\ Generated
     /\ Sampled(variant, gcfg.type)
     /\ (gcfg.radius = 0 \/ gcfg.branches = 1 \/ gcfg.starsCount = 0)) =>
        /\ \A j \in 1..Len(gpos) : gpos[j].k = "num"
        /\ \A j \in 1..Len(gcol) : gcol[j].k = "num"
        /\ gcfg.starsCount = 0 => gout.stars[1].posLen = 0 /\ gout.stars[1].colLen = 0

(* C12: for the five galaxy types and a radius above zero, the lerp factor  *)
(* of every particle is r / radius for the radius r drawn for it, lies in  *)
(* [0, 1], and each color channel written is inside + f * (outside -       *)
(* inside).                                                                *)
C12_ColorIsConvexMix ==
    (gcfg.type \in GalaxyType /\ gcfg.radius > 0) =>
        \A j \in 1..Len(gmix) :
            LET f == gmix[j].alpha
                r == gmix[j].r
                inside == Color(gcfg.insideColor)
                outside == Color(gcfg.outsideColor)
            IN  /\ f.k = "num" /\ r.k = "num"
                /\ f.v = (r.v * 100) \div gcfg.radius
                /\ 0 <= f.v /\ f.v <= 100
                /\ \A c \in 1..3 :
                      gcol[3 * (j - 1) + c] =
                          N(inside[c] + ((outside[c] - inside[c]) * f.v) \div 100)

C12_Witness ==
    /\ Generated
    /\ gcfg.type \in GalaxyType /\ gcfg.radius > 0
    /\ Len(gmix) = MaxStars
    /\ \E j \in 1..Len(gmix) :
          /\ gmix[j].alpha.v > 0 /\ gmix[j].alpha.v < 100
          /\ gcol[3 * (j - 1) + 1] # N(Color(gcfg.insideColor)[1])

(* C16: every auxiliary the generation installs has a name that animate    *)
(* dispatches on; none has the empty name or a name animate does not know. *)
C16_AuxiliariesTagged ==
    (Generated /\ gcfg.type \in Types) =>
        \A j \in 1..Len(gout.aux) : gout.aux[j].name \in DispatchTags(variant)

----------------------------------------------------------------------------
(* Properties of the frame loop *)

FrameParticles == 1..(Len(kmeta.isGalaxyA))

(* C11: after the generation and after every frame, each color value of    *)
(* the stars is a number in [0, 1], and no lerp factor the generation      *)
(* passed to the inside/outside mix is above 1.                            *)
C11_ColorsInUnitRange ==
    /\ \A i \in DOMAIN krun : \A j \in 1..Len(krun[i].col) :
          /\ krun[i].col[j].k = "num"
          /\ 0 <= krun[i].col[j].v /\ krun[i].col[j].v <= 100
    /\ \A k \in 1..Len(kalpha) : kalpha[k].k = "num" /\ kalpha[k].v <= 100

(* C13: in the periodic revision's supernova, a frame at elapsed time      *)
(* t + 10 s leaves the position buffer that a frame at t leaves, whatever  *)
(* frames ran before it, and a frame at progress 0 leaves every position   *)
(* at the origin.                                                          *)
C13_SupernovaPeriodic ==
    (variant = "periodic" /\ kcfg.type = "SUPERNOVA") =>
        /\ (klast[2] >= 0 /\ klast[1] = klast[2] + 10000) => krun[1].pos = krun[2].pos
        /\ \A i \in Runs :
              (klast[i] >= 0 /\ klast[i] % 10000 = 0) =>
                  \A j \in 1..Len(krun[i].pos) : krun[i].pos[j] = 0

C13_Witness ==
    /\ variant = "periodic" /\ kcfg.type = "SUPERNOVA"
    /\ klast[2] = 2500 /\ klast[1] = 12500
    /\ kframes[1] = MaxFrames
    /\ \E j \in 1..Len(krun[1].pos) : krun[1].pos[j] # 0

(* C14: except in the continuous revision's supernova, and leaving the     *)
(* jets aside, two runs whose last frame was at the same elapsed time have *)
(* the same buffers and rotation, however many frames each ran before.     *)
C14_LawsStateless ==
    (/\ klast[1] >= 0 /\ klast[1] = klast[2]
     /\ ~(variant = "continuous" /\ kcfg.type = "SUPERNOVA")) =>
        /\ krun[1].pos = krun[2].pos
        /\ krun[1].col = krun[2].col
        /\ krun[1].rotY = krun[2].rotY

(* C15: no frame changes geometry.userData: the velocities, the initial    *)
(* positions and isGalaxyA keep the values the generation gave them.       *)
C15_MetadataReadOnly == [][kmeta' = kmeta]_vars

C15_Witness ==
    /\ variant = "periodic" /\ kcfg.type = "COLLISION"
    /\ kframes[1] = MaxFrames /\ klast[1] > 0
    /\ \E j, k \in FrameParticles : kmeta.isGalaxyA[j] /\ ~kmeta.isGalaxyA[k]
    /\ \E j \in 1..Len(kmeta.initialPositions) : kmeta.initialPositions[j] # 0
    /\ \E j \in 1..Len(krun[1].pos) : krun[1].pos[j] # 0

(* C17: after a collision frame at elapsed time t, the x of each particle  *)
(* is its rotated local x plus the center of its population plus a drift   *)
(* of magnitude 2 * (1 - |D(t)| / 5) when |D(t)| < 5 and 0 otherwise, and  *)
(* the drift points from the center of its population to the center of     *)
(* the other one, for D(t) of either sign.                                 *)
C17_DriftTowardOther ==
    (variant = "periodic" /\ kcfg.type = "COLLISION") =>
        \A i \in Runs : klast[i] >= 0 =>
            \A k \in FrameParticles :
                LET t == klast[i]
                    D == CollisionDistance(t)
                    center == IF kmeta.isGalaxyA[k] THEN D ELSE -D
                    other == -center
                    init == Triple(kmeta.initialPositions, k)
                    drift == krun[i].pos[3 * k - 2] - CollisionRotX(init, t) - center
                IN  /\ Abs(drift) = IF Abs(D) < 5000
                                    THEN MulM(1000 - DivM(Abs(D), 5000), 2000) ELSE 0
                    /\ (drift # 0 /\ other # center) => ((drift > 0) = (other > center))

(* C18: a frame of the continuous revision's supernova keeps the number of *)
(* particles, and leaves each particle either at its position advanced by  *)
(* velocity * 0.04, which is then within 25 of the origin, or, when that   *)
(* is farther than 25, exactly at the origin.                              *)
C18_RecycledNotRemoved ==
    [][kframes'[1] # kframes[1] =>
        /\ Len(krun'[1].pos) = Len(krun[1].pos)
        /\ Len(krun'[1].pos) = 3 * MaxParticles
        /\ \A k \in 1..MaxParticles :
              LET p == Triple(krun[1].pos, k)
                  vel == Triple(kmeta.velocities, k)
                  q == [j \in 1..3 |-> p[j] + MulM(vel[j], 40)]
                  far == q[1] * q[1] + q[2] * q[2] + q[3] * q[3] > 25000 * 25000
                  new == Triple(krun'[1].pos, k)
              IN  /\ new = IF far THEN <<0, 0, 0>> ELSE q
                  /\ new[1] * new[1] + new[2] * new[2] + new[3] * new[3]
                        <= 25000 * 25000]_vars

C18_Witness ==
    /\ variant = "continuous" /\ kcfg.type = "SUPERNOVA"
    /\ kframes[1] > 0
    /\ \E k \in 1..MaxParticles : Triple(krun[1].pos, k) = <<0, 0, 0>>

(* C19: the two jets have position buffers of their own: they do not share *)
(* a geometry, and the step of one jet in a frame changes the positions of *)
(* no other jet.                                                           *)
C19_JetsIndependent ==
    /\ \A j, k \in JetIndices(kaux) : j # k => kaux[j].geometry # kaux[k].geometry
    /\ \A i \in DOMAIN krun : \A e \in 1..Len(krun[i].jetlog) :
          krun[i].jetlog[e].moved \subseteq {krun[i].jetlog[e].obj}

(* C20: in a frame, the height of every jet particle grows by the one      *)
(* increment of the revision (0.25, 0.4) with its x and z kept, unless     *)
(* that takes it above the bound (15, 20), when its height becomes 0.5;    *)
(* after the frame no jet particle is above the bound.                     *)
C20_JetsConstantVelocity ==
    [][\A i \in Runs : kframes'[i] # kframes[i] =>
        \A j \in JetIndices(kaux) :
            LET old == krun[i].jets[kaux[j].geometry]
                new == krun'[i].jets[kaux[j].geometry]
                step == IF variant = "continuous" THEN 250 ELSE 400
                bound == IF variant = "continuous" THEN 15000 ELSE 20000
            IN  \A k \in 1..(Len(old) \div 3) :
                    /\ IF old[3 * k - 1] + step > bound
                       THEN new[3 * k - 1] = 500
                       ELSE /\ new[3 * k - 1] = old[3 * k - 1] + step
                            /\ new[3 * k - 2] = old[3 * k - 2]
                            /\ new[3 * k] = old[3 * k]
                    /\ new[3 * k - 1] <= bound]_vars

----------------------------------------------------------------------------
(* Properties of the rigid rotation *)

(* C21: a frame that finds stars of one of the five galaxy types sets      *)
(* their rotation.y to elapsedTime * rate, rate 0.02 for ELLIPTICAL and    *)
(* LENTICULAR and 0.05 for the other galaxy types, by the law that writes  *)
(* no buffer.                                                              *)
C21_RigidRotationRate ==
    (frame.stars # NoObject /\ frame.stars \in DOMAIN objects
        /\ frame.starsType \in GalaxyType) =>
        /\ objects[frame.stars].lastLaw = "rotate"
        /\ objects[frame.stars].rotY = frame.elapsedTime * RotationSpeed(frame.starsType)

----------------------------------------------------------------------------
(* Properties of the lenticular rule *)

(* C22: in the lenticular generation of the continuous and the periodic    *)
(* revision, particle i is placed by the bulge rule exactly when           *)
(* i < 0.4 * starsCount, and the angle of every other (disk) particle is   *)
(* the same whatever i mod branches is.                                    *)
C22_LenticularNoArms ==
    (variant # "overlay" /\ gcfg.type = "LENTICULAR") =>
        \A k \in 1..Len(gmix) :
            /\ gmix[k].rule = "bulge" <=> (k - 1) * 10 < 4 * gcfg.starsCount
            /\ gmix[k].rule = "disk" =>
                  \A j \in 0..(gcfg.branches - 1) :
                      gmix[k].angle = TotalAngle(gcfg, j, gmix[k].r)

----------------------------------------------------------------------------
(* Properties of the auxiliary list *)

----------------------------------------------------------------------------
(* Properties of the teardown *)

(* C24: no run of animate takes place after the cleanup of the mount       *)
(* effect has executed.                                                    *)
C24_NoFrameAfterTeardown == frame.mounted # "gone"

----------------------------------------------------------------------------
(* Properties of the narration player *)

Playing == {k \in DOMAIN app.sources : app.sources[k].status = "playing"}

(* C25: a source that is playing plays the narration of the selected item. *)
C25_PlaysSelectedNarration ==
    \A k \in Playing : app.sources[k].buffer = app.selectedItem

(* C26: when the play / pause button resumes a narration that was paused,  *)
(* the new source starts at the position the paused source had reached.    *)
C26_ResumeFromPausedPosition ==
    [][ (/\ app'.clicks = app.clicks + 1
         /\ app.mark.kind = "pause"
         /\ app'.mark.kind = "play"
         /\ app'.sources[app'.sourceNode].via = "toggle")
        => app'.sources[app'.sourceNode].offset = app.mark.pos ]_vars

(* C27: isGeneratingAudio is true exactly while a call of generateSpeech   *)
(* is in flight.                                                           *)
C27_FlagTracksRequests == app.isGeneratingAudio <=> app.requests # << >>

(* C28: at most one source node is started and not yet stopped or ended,   *)
(* and it is the one sourceNodeRef holds.                                  *)
C28_OneSourceAtATime ==
    /\ Cardinality(Playing) <= 1
    /\ \A k \in Playing : k = app.sourceNode

C28_Witness ==
    \E j \in DOMAIN app.sources, k \in Playing :
        /\ app.sources[j].status = "stopped"
        /\ app.sources[j].start < app.sources[k].start
        /\ app.sources[k].via = "load"
        /\ app.clicks = MaxClicks

----------------------------------------------------------------------------
(* Properties of the live voice session *)

(* C29: every chunk is scheduled no earlier than the end of the chunk      *)
(* scheduled before it, the later of two scheduled chunks starts no        *)
(* earlier than the earlier one ends, and once a message flagged           *)
(* interrupted has been handled no source is scheduled and nextStartTime   *)
(* is 0.                                                                   *)
C29_BackToBackAndInterrupt ==
    /\ \A s \in voice.sources : s.when >= s.after
    /\ \A s, t \in voice.sources :
           s.seq < t.seq => t.when >= s.when + s.duration
    /\ voice.handled = "interrupted" =>
           (voice.sources = {} /\ voice.nextStartTime = 0)

(* After an interruption, with the clock advanced, two chunks are          *)
(* scheduled and the second starts where the first ends.                   *)
C29_Witness ==
    /\ voice.interruptions > 0
    /\ voice.currentTime > 0
    /\ \E s, t \in voice.sources :
           /\ t.seq = s.seq + 1
           /\ s.when > 0
           /\ t.when = s.when + s.duration

----------------------------------------------------------------------------
(* Properties of createBlob *)

(* The samples the loop has converted so far *)
Written == 1..blob.i

(* C30: the 16 bit value written for a sample between -1 and 1 has the     *)
(* sign of the sample (never the opposite one), and of two samples the     *)
(* larger is not written as the smaller value.                             *)
C30_SignAndOrderPreserved ==
    /\ \A k \in Written :
           /\ blob.data[k] >= 0 => blob.int16[k] >= 0
           /\ blob.data[k] <= 0 => blob.int16[k] <= 0
    /\ \A j, k \in Written :
           blob.data[j] <= blob.data[k] => blob.int16[j] <= blob.int16[k]

====
